---- MODULE Spec2Model ----
\* The GEOTEE crawl-and-index pipeline: the spider's callbacks
\* (scraper/spiders/geotee_spider.py) driven by the crawling framework's
\* scheduler, and the ingestion pipeline (scraper/pipelines/knowledge_pipeline.py).
\* Strings (URLs, texts) are sequences of one-character strings.
EXTENDS Integers, Sequences, FiniteSets, Bags, TLC

VARIABLES
    depth_limit,      \* the DEPTH_LIMIT setting in force for the run
    visited_urls,     \* GeoteeSpider.visited_urls
    scraped_count,    \* GeoteeSpider.scraped_count
    pending,          \* bag of requests [url, depth] waiting in the scheduler
    inflight,         \* bag of requests being downloaded
    active,           \* parse generators that still have links to go through
    items,            \* bag of the items parse has yielded
    enqueued,         \* bag of URLs: follow requests that entered the scheduler
    depth_dropped,    \* follow requests the depth filter dropped
    fetched,          \* bag of responses [url, depth] handed to parse
    coflight,         \* pairs of URLs with a common link whose downloads overlapped
    pstate,           \* the pipeline object: "init", "open", "closed", "crashed"
    items_processed,  \* KnowledgePipeline.items_processed
    items_indexed,    \* KnowledgePipeline.items_indexed
    store,            \* the points of the collection geotee_kb
    results,          \* what each process_item call of the run ended as, in order
    embed_calls,      \* create_embedding calls of the run
    upsert_calls,     \* client.upsert calls of the run
    last_item,        \* the item of the latest process_item call
    last_indexed,     \* per Document id, the item of its latest successful upsert
    client,           \* KnowledgePipeline.client is set (not None)
    model,            \* KnowledgePipeline.model is set (not None)
    collection,       \* the collection geotee_kb in Qdrant: {} or {its descriptor}
    summary,          \* what close_spider logged: {} or {the totals}
    json_items,       \* JsonExportPipeline.items
    json_file,        \* the arrays json.dump wrote to the run's snapshot file
    norm_base,        \* the URL of the response a link is normalized against
    norm_link,        \* the href being normalized
    norm_runs,        \* the results of normalizing it, then the result, and so on
    session,          \* Redis key session:<sender_id>: {} when unset, else {count}
    rl_pc,            \* per action-server worker: where its ActionCheckRateLimit.run is
    rl_query_count,   \* per worker: the local query_count, {} for None
    rl_started,       \* ActionCheckRateLimit runs started in the session window
    rl_allowed,       \* runs that returned rate_limited = False
    rl_limited,       \* runs that returned rate_limited = True
    rl_errors,        \* runs that ended in the except branch
    now,              \* minutes since the action server started
    session_expire,   \* when the key session:<sender_id> expires: {} for no expiry
    terms,            \* Redis key terms_accepted:<sender_id>: {} when unset, else {"true"}
    terms_expire,     \* when the terms key expires: {} for no expiry
    last_accept,      \* {} or {when ActionAcceptTerms last stored the acceptance}
    slots,            \* the tracker's slots, each {} for None or {its value}
    returned,         \* the latest action run: its name, its events and when it returned
    fn_arg,           \* the arguments of the call under study, <<>> when there is none
    fn_result,        \* {} until the call has returned, then {what it returned}
    handed,           \* bag of the items the engine has passed to process_item
    gave_up           \* URLs of the requests dropped with their retries used up

crawl_vars == <<depth_limit, visited_urls, scraped_count, pending, inflight, active,
                items, enqueued, depth_dropped, fetched, coflight>>

pipeline_vars == <<pstate, items_processed, items_indexed, store, results,
                   embed_calls, upsert_calls, last_item, last_indexed,
                   client, model, collection, summary, json_items, json_file>>

norm_vars == <<norm_base, norm_link, norm_runs>>

\* The variables neither the crawl nor the pipeline touches.
rate_vars == <<session, rl_pc, rl_query_count, rl_started, rl_allowed, rl_limited,
               rl_errors, now, session_expire, terms, terms_expire, last_accept,
               slots, returned>>

run_vars == <<handed, gave_up>>

fn_vars == <<fn_arg, fn_result>>

ext_vars == <<norm_vars, rate_vars, run_vars, fn_vars>>

vars == <<crawl_vars, pipeline_vars, ext_vars>>

-----------------------------------------------------------------------------
\* Strings

Min(a, b) == IF a <= b THEN a ELSE b

Rep(c, n) == [i \in 1..n |-> c]

Take(s, n) == SubSeq(s, 1, Min(n, Len(s)))

Drop(s, n) == SubSeq(s, n + 1, Len(s))

StartsAt(s, p, i) == i + Len(p) - 1 <= Len(s) /\ SubSeq(s, i, i + Len(p) - 1) = p

StartsWith(s, p) == StartsAt(s, p, 1)

EndsWith(s, p) == Len(p) <= Len(s) /\ SubSeq(s, Len(s) - Len(p) + 1, Len(s)) = p

\* str.find, 1-based; 0 when p does not occur.
Find(s, p) ==
    IF \E i \in 1..Len(s) : StartsAt(s, p, i)
    THEN CHOOSE i \in 1..Len(s) : StartsAt(s, p, i) /\ \A j \in 1..(i - 1) : ~StartsAt(s, p, j)
    ELSE 0

Contains(s, p) == Find(s, p) # 0

\* s.split(c)[0]
SplitFirst(s, c) == IF Find(s, <<c>>) = 0 THEN s ELSE Take(s, Find(s, <<c>>) - 1)

\* s.rstrip(c): every trailing c goes.
RStrip(s, c) ==
    IF \A i \in 1..Len(s) : s[i] = c
    THEN <<>>
    ELSE Take(s, CHOOSE i \in 1..Len(s) : s[i] # c /\ \A j \in (i + 1)..Len(s) : s[j] = c)

\* s.replace(p, ''): every occurrence of p goes, left to right.
RECURSIVE RemoveAll(_, _)
RemoveAll(s, p) ==
    IF Find(s, p) = 0
    THEN s
    ELSE Take(s, Find(s, p) - 1) \o RemoveAll(Drop(s, Find(s, p) - 1 + Len(p)), p)

UpperChars == <<"L", "P", "F">>

LowerChars == <<"l", "p", "f">>

LowerChar(c) ==
    IF \E i \in 1..Len(UpperChars) : UpperChars[i] = c
    THEN LowerChars[CHOOSE i \in 1..Len(UpperChars) : UpperChars[i] = c]
    ELSE c

Lower(s) == [i \in 1..Len(s) |-> LowerChar(s[i])]

Digits == {"0", "1", "2", "3", "4", "5", "6", "7", "8", "9"}

WhiteSpace == {" ", "\n", "\t", "\r"}

-----------------------------------------------------------------------------
\* URLs

SchemeSep == <<":","/","/">>

Https == <<"h","t","t","p","s",":","/","/">>

Base == Https \o <<"w","e","b",".","g","e","o","t","e","e",".","g","r">>

start_urls == << Base \o <<"/">> >>

\* urlparse(url).netloc: what lies between "://" and the next "/", "?" or "#".
netloc(url) ==
    IF ~Contains(url, SchemeSep)
    THEN <<>>
    ELSE LET rest == Drop(url, Find(url, SchemeSep) + 2)
         IN  SplitFirst(SplitFirst(SplitFirst(rest, "/"), "?"), "#")

\* scheme://netloc of an absolute URL.
Origin(url) == Take(url, Find(url, SchemeSep) + 2 + Len(netloc(url)))

\* The path of an absolute URL up to and including its last "/".
Directory(url) ==
    LET noq  == SplitFirst(SplitFirst(url, "#"), "?")
        path == Drop(noq, Len(Origin(url)))
    IN  IF path = <<>> THEN Origin(url) \o <<"/">>
        ELSE Origin(url) \o Take(path, CHOOSE i \in 1..Len(path) :
                                 path[i] = "/" /\ \A j \in (i + 1)..Len(path) : path[j] # "/")

\* What follows the first c in s, <<>> when there is none.
After(s, c) == IF Contains(s, <<c>>) THEN Drop(s, Find(s, <<c>>)) ELSE <<>>

\* urlunparse of the parts of url: "?" and "#" are written only in front of
\* a query and a fragment that are not empty.
urlunparse(url) ==
    LET nofrag == SplitFirst(url, "#")
        query  == After(nofrag, "?")
        frag   == After(url, "#")
    IN  SplitFirst(nofrag, "?")
        \o (IF query # <<>> THEN <<"?">> \o query ELSE <<>>)
        \o (IF frag # <<>> THEN <<"#">> \o frag ELSE <<>>)

\* urllib.parse.urljoin for the link forms the pages hold: an absolute URL, a
\* fragment, a root-relative path and a relative path without dot segments.
urljoin(base, link) ==
    IF link = <<>> THEN base
    ELSE IF Contains(link, SchemeSep) THEN urlunparse(link)
    ELSE IF link[1] = "#" THEN urlunparse(SplitFirst(base, "#") \o link)
    ELSE IF link[1] = "/" THEN urlunparse(Origin(base) \o link)
    ELSE urlunparse(Directory(base) \o link)

exclude_patterns == <<
    [kind |-> "search", lit |-> <<"/","l","o","g","i","n">>],
    [kind |-> "search", lit |-> <<"/","l","o","g","o","u","t">>],
    [kind |-> "search", lit |-> <<"/","a","d","m","i","n">>],
    [kind |-> "search", lit |-> <<"/","w","p","-","a","d","m","i","n">>],
    [kind |-> "search", lit |-> <<"/","w","p","-","l","o","g","i","n">>],
    [kind |-> "end",    lit |-> <<".","p","d","f">>],
    [kind |-> "end",    lit |-> <<".","j","p","g">>],
    [kind |-> "end",    lit |-> <<".","j","p","e","g">>],
    [kind |-> "end",    lit |-> <<".","p","n","g">>],
    [kind |-> "end",    lit |-> <<".","g","i","f">>],
    [kind |-> "end",    lit |-> <<".","z","i","p">>],
    [kind |-> "end",    lit |-> <<".","d","o","c">>],
    [kind |-> "end",    lit |-> <<".","d","o","c","x">>],
    [kind |-> "search", lit |-> <<"/","f","e","e","d","/">>],
    [kind |-> "search", lit |-> <<"/","r","s","s","/">>],
    [kind |-> "search", lit |-> <<"/","t","r","a","c","k","b","a","c","k","/">>],
    [kind |-> "search", lit |-> <<"?","r","e","p","l","y","t","o","c","o","m","=">>],
    [kind |-> "digits", lit |-> <<"/","p","a","g","e","/">>] >>

\* re.search(pattern, url, re.IGNORECASE) for the three pattern shapes of the
\* list: a literal, a literal at the end, and literal \d+ "/".
re_search(pat, url) ==
    LET u == Lower(url)
    IN  CASE pat.kind = "search" -> Contains(u, pat.lit)
          [] pat.kind = "end"    -> EndsWith(u, pat.lit)
          [] pat.kind = "digits" ->
                \E i \in 1..Len(u) :
                    /\ StartsAt(u, pat.lit, i)
                    /\ \E j \in (i + Len(pat.lit) + 1)..Len(u) :
                          /\ u[j] = "/"
                          /\ \A k \in (i + Len(pat.lit))..(j - 1) : u[k] \in Digits

is_internal_link(link, base_url) ==
    IF link = <<>>
    THEN FALSE
    ELSE LET www == <<"w","w","w",".">>
             link_domain == RemoveAll(netloc(urljoin(base_url, link)), www)
             base_domain == RemoveAll(netloc(base_url), www)
         IN  link_domain = base_domain

\* The checks of should_follow_link on the URL alone: the domain and the
\* exclude patterns.
passes_filters(url) ==
    /\ is_internal_link(url, start_urls[1])
    /\ \A i \in 1..Len(exclude_patterns) : ~re_search(exclude_patterns[i], url)

\* One link of extract_links: absolute, without fragment, without trailing "/".
clean_link(response_url, link) ==
    RStrip(SplitFirst(urljoin(response_url, link), "#"), "/")

\* Faulty variant: extract_links reading only as many hrefs as the item keeps.
extract_links_of_kept(response_url, hrefs) ==
    { clean_link(response_url, hrefs[i]) :
        i \in { k \in 1..Min(Len(hrefs), 10) : hrefs[k] # <<>> /\ hrefs[k][1] # "#" } }

extract_links(response_url, hrefs) ==
    { clean_link(response_url, hrefs[i]) :
        i \in { k \in 1..Len(hrefs) : hrefs[k] # <<>> /\ hrefs[k][1] # "#" } }

-----------------------------------------------------------------------------
\* Text

\* str.strip()
Strip(s) ==
    IF \A i \in 1..Len(s) : s[i] \in WhiteSpace
    THEN <<>>
    ELSE LET a == CHOOSE i \in 1..Len(s) : s[i] \notin WhiteSpace /\ \A j \in 1..(i - 1) : s[j] \in WhiteSpace
             b == CHOOSE i \in 1..Len(s) : s[i] \notin WhiteSpace /\ \A j \in (i + 1)..Len(s) : s[j] \in WhiteSpace
         IN  SubSeq(s, a, b)

\* re.sub(<one or more of cs>, r, s) for a one-character r: each maximal run
\* of characters of cs becomes r.
SubRuns(s, cs, r) ==
    LET marked == [i \in 1..Len(s) |->
                      [c    |-> IF s[i] \in cs THEN r ELSE s[i],
                       keep |-> ~(s[i] \in cs /\ i > 1 /\ s[i - 1] \in cs)]]
        kept   == SelectSeq(marked, LAMBDA m : m.keep)
    IN  [i \in 1..Len(kept) |-> kept[i].c]

clean_text(text) ==
    IF text = <<>> THEN <<>>
    ELSE Strip(SubRuns(SubRuns(Strip(text), WhiteSpace, " "), {"\r", "\n", "\t"}, " "))

remove_extra_whitespace(text) ==
    Strip(SubRuns(SubRuns(text, {" "}, " "), {"\n"}, "\n"))

\* sep.join(parts)
RECURSIVE Join(_, _)
Join(parts, sep) ==
    IF parts = <<>> THEN <<>>
    ELSE IF Len(parts) = 1 THEN parts[1]
    ELSE LET half == Len(parts) \div 2
         IN  Join(SubSeq(parts, 1, half), sep) \o sep
                 \o Join(SubSeq(parts, half + 1, Len(parts)), sep)

\* hashlib.md5(s.encode()).hexdigest(), taken to be collision free: the digest
\* is identified with the string it was computed from.
md5(s) == [md5 |-> s]

MIN_TEXT_LENGTH == 100

\* The text of extract_content: the cleaned non-blank text nodes joined by " ".
page_text(texts) ==
    remove_extra_whitespace(
        Join([i \in 1..Len(SelectSeq(texts, LAMBDA t : Strip(t) # <<>>)) |->
                 clean_text(SelectSeq(texts, LAMBDA t : Strip(t) # <<>>)[i])], <<" ">>))

\* str.split(): the words between runs of whitespace.
SplitWords(s) ==
    LET n  == Strip(SubRuns(s, WhiteSpace, " "))
        sp == <<0>> \o SelectSeq([i \in 1..Len(n) |-> i], LAMBDA i : n[i] = " ") \o <<Len(n) + 1>>
    IN  IF n = <<>> THEN <<>>
        ELSE [k \in 1..(Len(sp) - 1) |-> SubSeq(n, sp[k] + 1, sp[k + 1] - 1)]

\* The item extract_content builds for url: its id is the md5 of the url.
Doc(url, title, meta, headings, text, at, links) ==
    [id |-> md5(url), url |-> url, title |-> title, meta_description |-> meta,
     headings |-> headings, text |-> text, category |-> "a",
     word_count |-> Len(SplitWords(text)), internal_links |-> links,
     scraped_at |-> at]

\* The selectors of the main content, in the order they are tried.
content_selectors ==
    <<"article", ".content", ".main-content", "#content", "main",
      ".entry-content", ".post-content">>

\* The text nodes extract_content reads: those of the first selector whose
\* getall() is a non-empty list, and those of the body when every list is
\* empty.
RECURSIVE first_selected(_, _)
first_selected(page, i) ==
    IF i > Len(content_selectors) THEN <<>>
    ELSE IF page.containers[content_selectors[i]] # <<>>
         THEN page.containers[content_selectors[i]]
         ELSE first_selected(page, i + 1)

text_content(page) ==
    IF first_selected(page, 1) # <<>> THEN first_selected(page, 1) ELSE page.texts

\* The title: the text of <title>, else of the first <h1>, cleaned; page.title
\* is <<>> when the page has no title text.
page_title(page) ==
    LET h1 == SelectSeq(page.headings, LAMBDA h : h.level = 1)
    IN  IF page.title # <<>> THEN clean_text(page.title)
        ELSE IF h1 # <<>> /\ h1[1].text # <<>> THEN clean_text(h1[1].text)
        ELSE <<>>

\* The headings: all h1 texts, then all h2 texts, up to h6, the blank ones
\* left out and the others cleaned. page.headings is in document order.
RECURSIVE headings_from(_, _)
headings_from(page, h_level) ==
    IF h_level > 6 THEN <<>>
    ELSE LET here == SelectSeq(page.headings, LAMBDA h : h.level = h_level)
         IN  [i \in 1..Len(here) |-> here[i].text] \o headings_from(page, h_level + 1)

page_headings(page) ==
    LET kept == SelectSeq(headings_from(page, 1), LAMBDA h : Strip(h) # <<>>)
    IN  [i \in 1..Len(kept) |-> clean_text(kept[i])]

INTERNAL_LINKS_CAP == 10

\* The internal_links field: the in-domain hrefs made absolute, in page
\* order, the first ten of them.
internal_links(response_url, hrefs) ==
    LET kept == SelectSeq(hrefs, LAMBDA l : l # <<>> /\ is_internal_link(l, response_url))
    IN  Take([i \in 1..Len(kept) |-> urljoin(response_url, kept[i])], INTERNAL_LINKS_CAP)

\* Faulty variant: extract_content with the floor one character too low.
extract_content_below_floor(response_url, page) ==
    LET text == page_text(text_content(page))
    IN  IF Len(text) < MIN_TEXT_LENGTH - 1
        THEN {}
        ELSE { Doc(response_url, page_title(page), clean_text(page.meta),
                   page_headings(page), text, "t1",
                   internal_links(response_url, page.hrefs)) }

\* extract_content: {} for None, {item} otherwise.
extract_content(response_url, page) ==
    LET text == page_text(text_content(page))
    IN  IF Len(text) < MIN_TEXT_LENGTH
        THEN {}
        ELSE { Doc(response_url, page_title(page), clean_text(page.meta),
                   page_headings(page), text, "t1",
                   internal_links(response_url, page.hrefs)) }

-----------------------------------------------------------------------------
\* The site the crawl runs against: what the server may answer at each URL.

hHome   == Base \o <<"/">>
hA      == Base \o <<"/","a">>
hASlash == Base \o <<"/","a","/">>
hAFrag  == Base \o <<"/","a","#","x">>
hB      == Base \o <<"/","b">>
hC      == Base \o <<"/","c">>
hD      == Base \o <<"/","d">>
hLogin  == Base \o <<"/","L","o","g","i","n">>
hExt    == Https \o <<"o","t","h","e","r",".","g","r","/","a">>
hWwwIn  == Https \o <<"w","e","b",".","w","w","w",".","g","e","o","t","e","e",".","g","r","/","a">>
hE      == Base \o <<"/","e">>
hTop    == <<"#","t","o","p">>

LongBody  == << <<" ", "\n">>, Rep("a", 60) \o <<"\n", " ">>, <<"\t">> \o Rep("b", 39) >>

ShortBody == << Rep("a", 60) \o <<" ", " ">>, Rep("b", 38) >>

\* A response body as the selectors see it: the text of <title>, the content
\* of the description meta tag, the headings in document order, the text
\* nodes under each content selector and under <body>, and the hrefs.
NoContainers == [sel \in { content_selectors[i] : i \in 1..Len(content_selectors) } |-> <<>>]

FullPage(title, meta, headings, containers, texts, hrefs) ==
    [title |-> title, meta |-> meta, headings |-> headings,
     containers |-> containers, texts |-> texts, hrefs |-> hrefs]

\* A page without title, description, headings or content container.
Page(texts, hrefs) == FullPage(<<>>, <<>>, <<>>, NoContainers, texts, hrefs)

AnchorNames == <<"1", "2", "3", "4", "5", "6", "7", "8">>

\* The hrefs of the home page: ten spellings of /a, then /b and an anchor.
HomeHrefs ==
    <<hASlash, hAFrag>> \o [i \in 1..Len(AnchorNames) |-> hA \o <<"#", AnchorNames[i]>>]
        \o <<hB, hTop>>

HomePage == Page(LongBody, HomeHrefs)

\* The pages the server may answer with at url: the home page at both
\* spellings of the root, /a and /b both linking to /c, and a chain
\* / -> /a -> /c -> web.www.geotee.gr/a -> /d -> /e of depth 5, /c linking
\* back to the home page; /d and /e are below the text floor.
SitePages(url) ==
    CASE url = hHome  -> {HomePage}
      [] url = Base   -> {HomePage}
      [] url = hA     -> {Page(LongBody, <<hC, hLogin, hExt>>)}
      [] url = hB     -> {Page(LongBody, <<hC>>)}
      [] url = hC     -> {Page(LongBody, <<hWwwIn, hHome, hTop>>)}
      [] url = hWwwIn -> {Page(LongBody, <<hD>>)}
      [] url = hD     -> {Page(ShortBody, <<hE>>)}
      [] OTHER        -> {Page(ShortBody, <<>>)}

\* Every URL a request of the crawl can be for: the start URLs and the
\* cleaned links of the pages.
AllHrefs ==
    {hHome, hA, hB, hC, hD, hE, hLogin, hExt, hWwwIn} \cup
    { HomeHrefs[i] : i \in 1..Len(HomeHrefs) }

Urls ==
    { start_urls[i] : i \in 1..Len(start_urls) } \cup
    { clean_link(start_urls[1], h) : h \in { x \in AllHrefs : x[1] # "#" } }

\* extract_content, extract_links and the checks of should_follow_link that
\* do not read visited_urls, computed once for each URL and page.
ItemTable == [u \in Urls |-> [p \in SitePages(u) |-> extract_content(u, p)]]

LinksTable == [u \in Urls |-> [p \in SitePages(u) |-> extract_links(u, p.hrefs)]]

PassesTable == [u \in Urls |-> passes_filters(u)]

\* The length of the cleaned main text of each page.
TextLenTable == [u \in Urls |-> [p \in SitePages(u) |-> Len(page_text(text_content(p)))]]

\* Faulty variant: should_follow_link without the visited check.
should_follow_link_unvisited_unchecked(url, visited) == PassesTable[url]

should_follow_link(url, visited) == url \notin visited /\ PassesTable[url]

\* Two different URLs whose pages can hold the same link.
SharesLink ==
    [u \in Urls |-> [v \in Urls |->
        /\ u # v
        /\ \E p \in SitePages(u), q \in SitePages(v) :
              LinksTable[u][p] \cap LinksTable[v][q] # {}]]

-----------------------------------------------------------------------------
\* The crawl: the framework's scheduler and downloader around GeoteeSpider.

DEPTH_LIMIT == 3

CONCURRENT_REQUESTS == 4

\* The values of the DEPTH_LIMIT setting a run may be started with: the
\* shipped one, a smaller one and 0.
DepthLimits == {0, 1, DEPTH_LIMIT}

\* A request of the spider: retry_times counts the retries it has had.
Request(u, d) == [url |-> u, depth |-> d, retry_times |-> 0]

\* Faulty variant: the depth filter one level too generous.
depth_allowed_one_deeper(limit, d) == limit = 0 \/ d <= limit + 1

\* Faulty variant: the depth filter taking 0 for a limit like any other.
depth_allowed_zero_is_limit(limit, d) == d <= limit

\* The depth filter on a request the spider yields at depth d: with
\* DEPTH_LIMIT = 0 there is no limit ("0 = infinite").
depth_allowed(limit, d) == limit = 0 \/ d <= limit

InitCrawl ==
    /\ depth_limit \in DepthLimits
    /\ visited_urls = {}
    /\ scraped_count = 0
    /\ pending = SetToBag({ Request(start_urls[i], 0) : i \in 1..Len(start_urls) })
    /\ inflight = EmptyBag
    /\ active = {}
    /\ items = EmptyBag
    /\ enqueued = EmptyBag
    /\ depth_dropped = {}
    /\ fetched = EmptyBag
    /\ coflight = {}

\* The downloader takes a request from the scheduler.
Download(req) ==
    /\ BagIn(req, pending)
    /\ BagCardinality(inflight) < CONCURRENT_REQUESTS
    /\ pending' = pending (-) SetToBag({req})
    /\ inflight' = inflight (+) SetToBag({req})
    /\ coflight' = coflight \cup
           { {req.url, r.url} : r \in { x \in BagToSet(inflight) : SharesLink[req.url][x.url] } }
    /\ UNCHANGED <<depth_limit, visited_urls, scraped_count, active, items,
                   enqueued, depth_dropped, fetched>>
    /\ UNCHANGED pipeline_vars

\* The download ends without a response for the callback (an error status,
\* retries used up, robots.txt, a request the framework filters out).
DownloadFail(req) ==
    /\ BagIn(req, inflight)
    /\ inflight' = inflight (-) SetToBag({req})
    /\ UNCHANGED <<depth_limit, visited_urls, scraped_count, pending, active,
                   items, enqueued, depth_dropped, fetched, coflight>>
    /\ UNCHANGED pipeline_vars

\* Faulty variant: parse without its opening check.
response_seen_never(url, visited) == FALSE

\* The check parse opens with: the response's URL was visited before.
response_seen(url, visited) == url \in visited

\* Faulty variant: parse returning when extract_content gave no item.
parse_links_of_item_pages(item, links) == IF item = {} THEN {} ELSE links

\* The links parse loops over after it has dealt with the item: those of
\* extract_links, whether or not an item was yielded.
parse_links(item, links) == links

\* parse, from its first line to the start of the link loop, on the response
\* to req holding page.
Parse(req, page) ==
    /\ BagIn(req, inflight)
    /\ inflight' = inflight (-) SetToBag({req})
    /\ fetched' = fetched (+) SetToBag({req})
    /\ IF response_seen(req.url, visited_urls)
       THEN UNCHANGED <<visited_urls, scraped_count, items, active>>
       ELSE /\ visited_urls' = visited_urls \cup {req.url}
            /\ scraped_count' = scraped_count + 1
            /\ items' = items (+) SetToBag(ItemTable[req.url][page])
            /\ active' =
                 LET links == parse_links(ItemTable[req.url][page], LinksTable[req.url][page])
                 IN  IF links = {}
                     THEN active
                     ELSE active \cup {[url |-> req.url, depth |-> req.depth,
                                        links |-> links]}
    /\ UNCHANGED <<depth_limit, pending, enqueued, depth_dropped, coflight>>
    /\ UNCHANGED pipeline_vars

\* One turn of parse's link loop in the generator cb: should_follow_link on
\* link and, when it holds, the follow request, which the depth filter lets
\* into the scheduler or drops.
FollowLink(cb, link) ==
    /\ cb \in active
    /\ link \in cb.links
    /\ active' = (active \ {cb}) \cup
                 (IF cb.links = {link} THEN {} ELSE {[cb EXCEPT !.links = @ \ {link}]})
    /\ IF should_follow_link(link, visited_urls)
       THEN IF depth_allowed(depth_limit, cb.depth + 1)
            THEN /\ pending' = pending (+) SetToBag({Request(link, cb.depth + 1)})
                 /\ enqueued' = enqueued (+) SetToBag({link})
                 /\ UNCHANGED depth_dropped
            ELSE /\ depth_dropped' = depth_dropped \cup {Request(link, cb.depth + 1)}
                 /\ UNCHANGED <<pending, enqueued>>
       ELSE UNCHANGED <<pending, enqueued, depth_dropped>>
    /\ UNCHANGED <<depth_limit, visited_urls, scraped_count, inflight, items,
                   fetched, coflight>>
    /\ UNCHANGED pipeline_vars

-----------------------------------------------------------------------------
\* The ingestion pipeline: KnowledgePipeline.

MIN_EMBED_LENGTH == 50

EMBED_TITLE_HEADINGS == 3

EMBED_WORDS == 500

PREVIEW_CHARS == 1000

PAYLOAD_HEADINGS == 5

\* The process_item calls of one run the model follows.
MaxProcess == 3

\* Faulty variant: prepare_text_for_embedding without its last line, the
\* whitespace of the joined parts left as it is.
prepare_text_uncollapsed(item) ==
    LET title_part == IF item.title # <<>>
                      THEN << item.title \o <<".", " ">> \o item.title \o <<".">> >>
                      ELSE <<>>
        meta_part  == IF item.meta_description # <<>> THEN <<item.meta_description>> ELSE <<>>
        head_part  == Take(item.headings, EMBED_TITLE_HEADINGS)
        text_part  == IF item.text # <<>>
                      THEN << Join(Take(SplitWords(item.text), EMBED_WORDS), <<" ">>) >>
                      ELSE <<>>
    IN  Join(title_part \o meta_part \o head_part \o text_part, <<" ">>)

prepare_text_for_embedding(item) ==
    LET title_part == IF item.title # <<>>
                      THEN << item.title \o <<".", " ">> \o item.title \o <<".">> >>
                      ELSE <<>>
        meta_part  == IF item.meta_description # <<>> THEN <<item.meta_description>> ELSE <<>>
        head_part  == Take(item.headings, EMBED_TITLE_HEADINGS)
        text_part  == IF item.text # <<>>
                      THEN << Join(Take(SplitWords(item.text), EMBED_WORDS), <<" ">>) >>
                      ELSE <<>>
        combined   == Join(title_part \o meta_part \o head_part \o text_part, <<" ">>)
    IN  Join(SplitWords(combined), <<" ">>)

\* Faulty variant: the floor one character too low.
too_short_below_floor(text_to_embed) == Len(text_to_embed) < MIN_EMBED_LENGTH - 1

\* The test that makes process_item return before the embedding.
too_short(text_to_embed) == Len(text_to_embed) < MIN_EMBED_LENGTH

\* model.encode(text): the vector is identified with the text it encodes.
create_embedding(text) == [encoded |-> text]

payload_of(item) ==
    [url              |-> item.url,
     title            |-> item.title,
     meta_description |-> item.meta_description,
     text             |-> Take(item.text, PREVIEW_CHARS),
     full_text        |-> item.text,
     category         |-> item.category,
     word_count       |-> item.word_count,
     headings         |-> Take(item.headings, PAYLOAD_HEADINGS),
     scraped_at       |-> item.scraped_at]

\* Faulty variant: the point keyed by the body text instead of the item id.
point_id_of_text(item) == md5(item.text)

\* The id of the point process_item builds.
point_id(item) == item.id

point_of(item) ==
    [id      |-> point_id(item),
     vector  |-> create_embedding(prepare_text_for_embedding(item)),
     payload |-> payload_of(item)]

\* client.upsert of one point: the point replaces the one of the same id.
upsert(points, point) == { p \in points : p.id # point.id } \cup {point}

\* How a process_item call ends, given what the embedding and the upsert do.
process_result(item, outcome) ==
    IF too_short(prepare_text_for_embedding(item)) THEN "skipped"
    ELSE IF outcome = "embed_error" THEN "embed_failed"
    ELSE IF outcome = "upsert_error" THEN "upsert_failed"
    ELSE "indexed"

\* Faulty variant: items_indexed incremented before the upsert returns.
indexed_after_counting_early(n, result) ==
    IF result \in {"indexed", "upsert_failed"} THEN n + 1 ELSE n

\* items_indexed after a call that ended as result.
indexed_after(n, result) == IF result = "indexed" THEN n + 1 ELSE n

\* Faulty variant: the except branch of process_item raising again.
after_item_error_raised == "crashed"

\* The pipeline after the except branch of process_item: the item is
\* returned and nothing is raised.
after_item_error == "open"

Outcomes == {"ok", "embed_error", "upsert_error"}

\* The items process_item is called with: /a crawled twice with a changed
\* body, and two items at the two sides of the 50-character floor.
ItemA1 == Doc(hA, <<"a","b">>, <<>>, <<>>, Rep("x", 42), "t1", <<>>)

ItemA2 == Doc(hA, <<"a","b">>, <<"m">>, << <<"h">> >>, Rep("y", 30) \o <<" ">> \o Rep("y", 30), "t2", <<>>)

ItemB == Doc(hB, <<>>, <<>>, <<>>, Rep("x", 49), "t1", <<>>)

ItemC == Doc(hC, <<>>, <<"m">>, <<>>, Rep("x", 24) \o <<" ", " ">> \o Rep("x", 23), "t1", <<>>)

PipelineItems == {ItemA1, ItemA2, ItemB, ItemC}

\* The items the spider yields on the site.
CrawlItems == UNION { UNION { ItemTable[u][p] : p \in SitePages(u) } : u \in Urls }

AllItems == PipelineItems \cup CrawlItems

DocIds == { it.id : it \in AllItems }

\* process_result, point_of and the prepared text of each item, computed once.
ResultTable == [it \in AllItems |-> [o \in Outcomes |-> process_result(it, o)]]

PointTable == [it \in AllItems |-> point_of(it)]

PreparedTable == [it \in AllItems |-> prepare_text_for_embedding(it)]

collection_name == "geotee_kb"

model_name == "paraphrase-multilingual-MiniLM-L12-v2"

\* model.get_sentence_embedding_dimension()
get_sentence_embedding_dimension(m) == [dimension_of |-> m]

\* The collection setup_collection creates.
CreatedCollection ==
    [name     |-> collection_name,
     size     |-> get_sentence_embedding_dimension(model_name),
     distance |-> "COSINE"]

\* A collection of the same name somebody else created, with other parameters.
ForeignCollection ==
    [name |-> collection_name, size |-> [dimension_of |-> "other"], distance |-> "EUCLID"]

\* What the first run may find in Qdrant: no collection, or one it did not create.
InitialCollections == {{}, {ForeignCollection}}

\* Faulty variant: setup_collection deleting and recreating the collection.
setup_collection_recreate(coll, points) ==
    [collection |-> {CreatedCollection}, points |-> {}]

\* setup_collection on the collection coll holding points: created when
\* there is none, left alone otherwise.
setup_collection(coll, points) ==
    IF coll # {}
    THEN [collection |-> coll, points |-> points]
    ELSE [collection |-> {CreatedCollection}, points |-> {}]

\* The calls of open_spider that can raise.
OpenFaults == {"none", "connect", "load_model", "get_collections", "create_collection"}

\* Faulty variant: open_spider logging the exception without raising it.
after_open_error_swallowed == "open"

\* The pipeline after the except branch of open_spider: the exception is
\* raised again.
after_open_error == "crashed"

InitPipeline ==
    /\ pstate = "init"
    /\ items_processed = 0
    /\ items_indexed = 0
    /\ store = {}
    /\ results = <<>>
    /\ embed_calls = 0
    /\ upsert_calls = 0
    /\ last_item = {}
    /\ last_indexed = [d \in DocIds |-> {}]
    /\ client = FALSE
    /\ model = FALSE
    /\ collection \in InitialCollections
    /\ summary = {}
    /\ json_items = <<>>
    /\ json_file = <<>>

\* Faulty variant: the snapshot keeping only the items that were indexed.
json_items_after_indexed_only(collected, item, result) ==
    IF result = "indexed" THEN Append(collected, item) ELSE collected

\* JsonExportPipeline.process_item on what KnowledgePipeline.process_item
\* returned, which is the item whatever result it ended as.
json_items_after(collected, item, result) == Append(collected, item)

\* open_spider: the client, the model and the collection are set up in this
\* order; the call named by fault raises, and the exception is raised again.
\* JsonExportPipeline.open_spider follows when it returned.
OpenSpider(fault) ==
    LET setup == setup_collection(collection, store)
        done  == fault = "none" \/ (fault = "create_collection" /\ collection # {})
    IN  /\ pstate = "init"
        /\ pstate' = IF done THEN "open" ELSE after_open_error
        /\ client' = (fault # "connect")
        /\ model' = (fault \notin {"connect", "load_model"})
        /\ collection' = IF done THEN setup.collection ELSE collection
        /\ store' = IF done THEN setup.points ELSE store
        /\ json_items' = IF done THEN <<>> ELSE json_items
        /\ UNCHANGED json_file
        /\ UNCHANGED <<items_processed, items_indexed, results, embed_calls,
                       upsert_calls, last_item, last_indexed, summary>>
        /\ UNCHANGED crawl_vars

\* process_item on item, the embedding and the upsert behaving as outcome,
\* and JsonExportPipeline.process_item on the item it returns.
ProcessItem(item, outcome) ==
    LET result == ResultTable[item][outcome]
    IN  /\ pstate = "open"
        /\ items_processed < MaxProcess
        /\ items_processed' = items_processed + 1
        /\ last_item' = {item}
        /\ results' = Append(results, result)
        /\ embed_calls' = IF result = "skipped" THEN embed_calls ELSE embed_calls + 1
        /\ upsert_calls' = IF result \in {"upsert_failed", "indexed"}
                           THEN upsert_calls + 1 ELSE upsert_calls
        /\ store' = IF result = "indexed" THEN upsert(store, PointTable[item]) ELSE store
        /\ items_indexed' = indexed_after(items_indexed, result)
        /\ last_indexed' = IF result = "indexed"
                           THEN [last_indexed EXCEPT ![item.id] = {item}]
                           ELSE last_indexed
        /\ pstate' = IF result \in {"embed_failed", "upsert_failed"}
                     THEN after_item_error ELSE pstate
        /\ json_items' = json_items_after(json_items, item, result)
        /\ UNCHANGED <<client, model, collection, summary, json_file>>
        /\ UNCHANGED crawl_vars

\* The totals close_spider logs, and the collection size when
\* get_collection answers.
close_summary(processed, indexed, points_count) ==
    [processed |-> processed, indexed |-> indexed, points_count |-> points_count]

\* close_spider: the totals are logged; get_collection answers (size_known)
\* or raises, which is logged as a warning. JsonExportPipeline.close_spider
\* dumps the items it collected to the file named after the time of the call.
CloseSpider(size_known) ==
    /\ pstate = "open"
    /\ pstate' = "closed"
    /\ summary' = { close_summary(items_processed, items_indexed,
                                  IF size_known THEN {Cardinality(store)} ELSE {}) }
    /\ UNCHANGED <<items_processed, items_indexed, store, results, embed_calls,
                   upsert_calls, last_item, last_indexed, client, model, collection>>
    /\ json_file' = Append(json_file, json_items)
    /\ UNCHANGED json_items
    /\ UNCHANGED crawl_vars

\* The next run of the crawler: a new pipeline object (__init__) on the
\* collection the earlier runs left.
NewRun ==
    /\ pstate \in {"closed", "crashed"}
    /\ pstate' = "init"
    /\ client' = FALSE
    /\ model' = FALSE
    /\ summary' = {}
    /\ UNCHANGED collection
    /\ items_processed' = 0
    /\ items_indexed' = 0
    /\ results' = <<>>
    /\ embed_calls' = 0
    /\ upsert_calls' = 0
    /\ last_item' = {}
    /\ json_items' = <<>>
    /\ json_file' = <<>>
    /\ UNCHANGED <<store, last_indexed>>
    /\ UNCHANGED crawl_vars

-----------------------------------------------------------------------------
\* Link normalization on its own: the normalization of extract_links applied
\* to an href of a page, then to its own result.

\* The times the normalization is applied in a row.
MaxNormalize == 2

\* The hrefs: absolute, root-relative or relative, with or without a query,
\* a fragment and trailing slashes.
NormPrefixes == {<<>>, <<"/">>, Base \o <<"/">>}

NormPaths == {<<"a">>, <<"a","/","b">>, <<"c","/","a">>}

NormQueries == {<<>>, <<"?">>, <<"?","q">>, <<"?","/">>, <<"?","q","=","/">>}

NormFragments == {<<>>, <<"#">>, <<"#","x">>, <<"#","x","/">>}

NormTails == {<<>>, <<"/">>}

\* The hrefs with a path, of the forms urljoin is modelled for.
NormLinks ==
    { pre \o path \o tail \o q \o f :
        pre \in NormPrefixes, path \in NormPaths, tail \in NormTails,
        q \in NormQueries, f \in NormFragments }

NormBases == {hHome, hA}

\* No link is being normalized.
NormIdle ==
    /\ norm_base = <<>>
    /\ norm_link = <<>>
    /\ norm_runs = <<>>

InitNormalize ==
    /\ norm_base \in NormBases
    /\ norm_link \in NormLinks
    /\ norm_runs = <<>>

\* The loop body of extract_links on norm_link, then on what it returned.
Normalize ==
    /\ norm_base # <<>>
    /\ Len(norm_runs) < MaxNormalize
    /\ norm_runs' = Append(norm_runs,
                           clean_link(norm_base, IF norm_runs = <<>> THEN norm_link
                                                 ELSE norm_runs[Len(norm_runs)]))
    /\ UNCHANGED <<norm_base, norm_link>>
    /\ UNCHANGED <<crawl_vars, pipeline_vars, rate_vars, run_vars, fn_vars>>

-----------------------------------------------------------------------------
\* Calls on their own: one call of a function of the spider or of the
\* pipeline on arguments drawn from a set, and what it returns.

FnIdle ==
    /\ fn_arg = <<>>
    /\ fn_result = {}

\* Link discovery and the follow decision on the hrefs the exclude patterns
\* are written for: a path of each family, alone or with a trailing slash or
\* a page below it, with or without a reply query and a fragment, absolute
\* or root-relative.
DenyPaths ==
    {<<"/","f","e","e","d">>,
     <<"/","r","s","s">>,
     <<"/","t","r","a","c","k","b","a","c","k">>,
     <<"/","p","a","g","e","/","2">>,
     <<"/","p","a","g","e","/","1","0">>,
     <<"/","l","o","g","i","n">>,
     <<"/","l","o","g","o","u","t">>,
     <<"/","a","d","m","i","n">>,
     <<"/","w","p","-","a","d","m","i","n">>,
     <<"/","w","p","-","l","o","g","i","n">>,
     <<"/","x",".","p","d","f">>,
     <<"/","x",".","j","p","g">>,
     <<"/","x",".","j","p","e","g">>,
     <<"/","x",".","p","n","g">>,
     <<"/","x",".","g","i","f">>,
     <<"/","x",".","z","i","p">>,
     <<"/","x",".","d","o","c">>,
     <<"/","x",".","d","o","c","x">>,
     <<"/","a">>}

DenyTails == {<<>>, <<"/">>, <<"/","x">>}

DenyQueries == {<<>>, <<"?","r","e","p","l","y","t","o","c","o","m","=","5">>}

DenyFragments == {<<>>, <<"#","c">>}

DenyPrefixes == {<<>>, Base}

DenyHrefs ==
    { pre \o path \o tail \o qs \o f :
        pre \in DenyPrefixes, path \in DenyPaths, tail \in DenyTails,
        qs \in DenyQueries, f \in DenyFragments }

InitDiscover ==
    /\ fn_arg \in { [response_url |-> b, href |-> h] : b \in NormBases, h \in DenyHrefs }
    /\ fn_result = {}

\* One turn of extract_links on the href and of parse's link loop on the
\* link it gives: the link, and whether should_follow_link lets it through.
Discover ==
    LET link == clean_link(fn_arg.response_url, fn_arg.href)
    IN  /\ fn_arg # <<>>
        /\ fn_result = {}
        /\ fn_result' = { [link |-> link,
                            follow |-> link \notin visited_urls /\ passes_filters(link)] }
        /\ UNCHANGED fn_arg
        /\ UNCHANGED <<crawl_vars, pipeline_vars, norm_vars, rate_vars, run_vars>>

\* extract_content on pages with and without a title, headings of mixed
\* levels, an <article> and a <main> container that are absent, hold only
\* whitespace or hold the text, and text outside the containers.
Heading(level, text) == [level |-> level, text |-> text]

ExtractTitles == {<<>>, <<"T">>}

ExtractHeadings ==
    { <<>>,
      << Heading(1, <<"A">>) >>,
      << Heading(2, <<"B">>), Heading(1, <<"A">>) >>,
      << Heading(1, <<"A">>), Heading(3, <<" ">>), Heading(2, <<"B", " ">>),
         Heading(1, <<"C">>) >> }

ArticleTexts == { <<>>, << <<" ">>, <<"\n">> >>, << Rep("r", 100) >> }

MainTexts == { <<>>, << <<"\n", " ">> >>, << Rep("m", 60), Rep("n", 40) >> }

OtherTexts == { <<>>, LongBody }

ExtractPages ==
    { FullPage(t, <<>>, hs,
               [NoContainers EXCEPT !["article"] = a, !["main"] = m],
               a \o m \o rest, <<>>) :
        t \in ExtractTitles, hs \in ExtractHeadings, a \in ArticleTexts,
        m \in MainTexts, rest \in OtherTexts }

InitExtract ==
    /\ fn_arg \in { [response_url |-> hA, page |-> pg] : pg \in ExtractPages }
    /\ fn_result = {}

\* extract_content on the page: what it returns, {} for None.
Extract ==
    /\ fn_arg # <<>>
    /\ fn_result = {}
    /\ fn_result' = { extract_content(fn_arg.response_url, fn_arg.page) }
    /\ UNCHANGED fn_arg
    /\ UNCHANGED <<crawl_vars, pipeline_vars, norm_vars, rate_vars, run_vars>>

\* prepare_text_for_embedding on items with and without a title, a
\* description and headings, with texts around the limit of EMBED_WORDS words.
PrepareTitles == {<<>>, <<"T">>, <<"a", " ", "b">>}

PrepareMetas == {<<>>, <<"m">>, <<"m", " ", " ", "n">>}

PrepareHeadings ==
    { <<>>,
      << <<"h">>, <<"i">> >>,
      << <<"h">>, <<"i", " ", "j">>, <<"k">>, <<"l">> >> }

\* A text of n words, those after the first EMBED_WORDS spelled "z".
Words(n) == Join([i \in 1..n |-> IF i > EMBED_WORDS THEN <<"z">> ELSE <<"w">>], <<" ">>)

PrepareTexts == {<<>>, Words(3), Words(EMBED_WORDS), Words(EMBED_WORDS + 1)}

PrepareItems ==
    { Doc(hA, t, m, hs, x, "t1", <<>>) :
        t \in PrepareTitles, m \in PrepareMetas, hs \in PrepareHeadings,
        x \in PrepareTexts }

InitPrepare ==
    /\ fn_arg \in { [item |-> it] : it \in PrepareItems }
    /\ fn_result = {}

\* prepare_text_for_embedding on the item: the text it returns.
Prepare ==
    /\ fn_arg # <<>>
    /\ fn_result = {}
    /\ fn_result' = { prepare_text_for_embedding(fn_arg.item) }
    /\ UNCHANGED fn_arg
    /\ UNCHANGED <<crawl_vars, pipeline_vars, norm_vars, rate_vars, run_vars>>

-----------------------------------------------------------------------------
\* The actions of the assistant that keep state in Redis
\* (rasa_bot/actions/actions.py): ActionCheckRateLimit run by the workers of
\* the action server for one sender, ActionCheckTerms, ActionAcceptTerms and
\* ActionResetSession. Time passes, and keys expire, only in Tick.

MAX_QUERIES == 10

\* The workers of the action server.
Workers == {1, 2}

\* The runs of the action the model follows.
MaxRuns == 12

SESSION_TIMEOUT == 60

\* The minutes the clock of the model advances by, and where it stops.
TickMinutes == 30

MaxClock == 120

SlotNames == {"terms_accepted", "session_queries_count", "rate_limited", "search_results"}

\* The events an action returns: per slot, {} when the slot is not set and
\* {v} for SlotSet(slot, v), v being {} for None.
NoEvents == [k \in SlotNames |-> {}]

\* The tracker applying the events of an action to the slots.
apply_events(old, events) ==
    [k \in SlotNames |-> IF events[k] = {} THEN old[k] ELSE CHOOSE v \in events[k] : TRUE]

\* raised: the action ended in its except branch.
Returned(action, events, raised) ==
    [action |-> action, events |-> events, raised |-> raised, at |-> now]

InitRate ==
    /\ now = 0
    /\ session_expire = {}
    /\ terms = {}
    /\ terms_expire = {}
    /\ last_accept = {}
    /\ slots = [k \in SlotNames |-> {}]
    /\ returned = [action |-> "none", events |-> NoEvents, raised |-> FALSE, at |-> 0]
    /\ session = {}
    /\ rl_pc = [w \in Workers |-> "idle"]
    /\ rl_query_count = [w \in Workers |-> {}]
    /\ rl_started = 0
    /\ rl_allowed = 0
    /\ rl_limited = 0
    /\ rl_errors = 0

\* run up to query_count = redis_conn.get(session_key).
RateGet(w) ==
    /\ rl_pc[w] = "idle"
    /\ rl_started < MaxRuns
    /\ rl_started' = rl_started + 1
    /\ rl_query_count' = [rl_query_count EXCEPT ![w] = session]
    /\ rl_pc' = [rl_pc EXCEPT ![w] = "got"]
    /\ UNCHANGED <<session, rl_allowed, rl_limited, rl_errors>>
    /\ UNCHANGED <<now, session_expire, terms, terms_expire, last_accept, slots, returned>>
    /\ UNCHANGED <<crawl_vars, pipeline_vars, norm_vars, run_vars, fn_vars>>

\* Faulty variant: the limit test letting a count at the limit through.
limit_reached_above(query_count) == query_count > MAX_QUERIES

\* The test query_count >= MAX_QUERIES of run.
limit_reached(query_count) == query_count >= MAX_QUERIES

\* The events of run: rate_limited and the count it reports.
rate_events(limited, count) ==
    [NoEvents EXCEPT !["rate_limited"] = {{limited}},
                     !["session_queries_count"] = {{count}}]

\* run after the get: the first query sets the key to 1 with the expiry, a
\* count at the limit is refused, any other is incremented in Redis and
\* allowed. INCR on a key that is not there creates it at 1 without expiry
\* and leaves the expiry of a key that is there as it is.
RateDecide(w) ==
    /\ rl_pc[w] = "got"
    /\ rl_pc' = [rl_pc EXCEPT ![w] = "idle"]
    /\ rl_query_count' = [rl_query_count EXCEPT ![w] = {}]
    /\ IF rl_query_count[w] = {}
       THEN /\ session' = {1}
            /\ session_expire' = {now + SESSION_TIMEOUT}
            /\ rl_allowed' = rl_allowed + 1
            /\ returned' = Returned("action_check_rate_limit", rate_events(FALSE, 1), FALSE)
            /\ UNCHANGED rl_limited
       ELSE IF \E c \in rl_query_count[w] : limit_reached(c)
       THEN /\ rl_limited' = rl_limited + 1
            /\ returned' = Returned("action_check_rate_limit",
                                    rate_events(TRUE, CHOOSE c \in rl_query_count[w] : TRUE), FALSE)
            /\ UNCHANGED <<session, session_expire, rl_allowed>>
       ELSE /\ session' = IF session = {} THEN {1} ELSE { c + 1 : c \in session }
            /\ session_expire' = IF session = {} THEN {} ELSE session_expire
            /\ rl_allowed' = rl_allowed + 1
            /\ returned' = Returned("action_check_rate_limit",
                                    rate_events(FALSE, (CHOOSE c \in rl_query_count[w] : TRUE) + 1), FALSE)
            /\ UNCHANGED rl_limited
    /\ slots' = apply_events(slots, returned'.events)
    /\ UNCHANGED <<rl_started, rl_errors>>
    /\ UNCHANGED <<now, terms, terms_expire, last_accept>>
    /\ UNCHANGED <<crawl_vars, pipeline_vars, norm_vars, run_vars, fn_vars>>

\* A Redis call of run raises: the except branch returns rate_limited = False.
RateError(w) ==
    /\ \/ /\ rl_pc[w] = "idle"
          /\ rl_started < MaxRuns
          /\ rl_started' = rl_started + 1
       \/ /\ rl_pc[w] = "got"
          /\ \A c \in rl_query_count[w] : ~limit_reached(c)
          /\ UNCHANGED rl_started
    /\ rl_pc' = [rl_pc EXCEPT ![w] = "idle"]
    /\ rl_query_count' = [rl_query_count EXCEPT ![w] = {}]
    /\ rl_allowed' = rl_allowed + 1
    /\ rl_errors' = rl_errors + 1
    /\ returned' = Returned("action_check_rate_limit",
                            [NoEvents EXCEPT !["rate_limited"] = {{FALSE}}], TRUE)
    /\ slots' = apply_events(slots, returned'.events)
    /\ UNCHANGED <<session, rl_limited>>
    /\ UNCHANGED <<now, session_expire, terms, terms_expire, last_accept>>
    /\ UNCHANGED <<crawl_vars, pipeline_vars, norm_vars, run_vars, fn_vars>>

\* Time passes: the keys whose expiry has come are gone.
Tick ==
    /\ now + TickMinutes <= MaxClock
    /\ now' = now + TickMinutes
    /\ IF \E t \in session_expire : t <= now'
       THEN session' = {} /\ session_expire' = {}
       ELSE UNCHANGED <<session, session_expire>>
    /\ IF \E t \in terms_expire : t <= now'
       THEN terms' = {} /\ terms_expire' = {}
       ELSE UNCHANGED <<terms, terms_expire>>
    /\ UNCHANGED <<rl_pc, rl_query_count, rl_started, rl_allowed, rl_limited, rl_errors,
                   last_accept, slots, returned>>
    /\ UNCHANGED <<crawl_vars, pipeline_vars, norm_vars, run_vars, fn_vars>>

\* Faulty variant: ActionCheckTerms taking any answer of Redis for an acceptance.
check_terms_reply_always(terms_accepted) == TRUE

\* The test terms_accepted == "true" of ActionCheckTerms.run.
check_terms_reply(terms_accepted) == terms_accepted = {"true"}

\* ActionCheckTerms.run: the slot says whether the terms key holds "true";
\* when the get raises (failed) it says False.
CheckTerms(failed) ==
    /\ returned' = Returned("action_check_terms",
           [NoEvents EXCEPT !["terms_accepted"] =
               {{ IF failed THEN FALSE ELSE check_terms_reply(terms) }}], failed)
    /\ slots' = apply_events(slots, returned'.events)
    /\ UNCHANGED <<session, rl_pc, rl_query_count, rl_started, rl_allowed, rl_limited,
                   rl_errors, now, session_expire, terms, terms_expire, last_accept>>
    /\ UNCHANGED <<crawl_vars, pipeline_vars, norm_vars, run_vars, fn_vars>>

\* ActionAcceptTerms.run: setex of the terms key and the slot; when the setex
\* raises (failed) nothing is stored and no event is returned.
AcceptTerms(failed) ==
    /\ IF failed
       THEN /\ returned' = Returned("action_accept_terms", NoEvents, TRUE)
            /\ UNCHANGED <<terms, terms_expire, last_accept>>
       ELSE /\ terms' = {"true"}
            /\ terms_expire' = {now + SESSION_TIMEOUT}
            /\ last_accept' = {now}
            /\ returned' = Returned("action_accept_terms",
                                    [NoEvents EXCEPT !["terms_accepted"] = {{TRUE}}], FALSE)
    /\ slots' = apply_events(slots, returned'.events)
    /\ UNCHANGED <<session, rl_pc, rl_query_count, rl_started, rl_allowed, rl_limited,
                   rl_errors, now, session_expire>>
    /\ UNCHANGED <<crawl_vars, pipeline_vars, norm_vars, run_vars, fn_vars>>

\* Faulty variant: the reset deleting the session counter.
session_after_reset_cleared(stored) == {}

\* The session key after ActionResetSession.run, which makes no Redis call.
session_after_reset(stored) == stored

\* ActionResetSession.run: four SlotSet events and nothing else.
ResetSession ==
    /\ returned' = Returned("action_reset_session",
           [k \in SlotNames |->
               CASE k = "terms_accepted"        -> {{FALSE}}
                 [] k = "session_queries_count" -> {{0}}
                 [] k = "rate_limited"          -> {{FALSE}}
                 [] k = "search_results"        -> {{}}], FALSE)
    /\ slots' = apply_events(slots, returned'.events)
    /\ session' = session_after_reset(session)
    /\ UNCHANGED <<rl_pc, rl_query_count, rl_started, rl_allowed, rl_limited,
                   rl_errors, now, session_expire, terms, terms_expire, last_accept>>
    /\ UNCHANGED <<crawl_vars, pipeline_vars, norm_vars, run_vars, fn_vars>>

-----------------------------------------------------------------------------
\* Retries: RETRY_ENABLED with RETRY_TIMES = 3 for the responses and
\* timeouts that are worth a retry.

RETRY_TIMES == 3

\* The URLs the server answers with a retryable status, any number of times.
TransientUrls == {hC}

\* Faulty variant: one retry more than RETRY_TIMES.
may_retry_once_more(retry_times) == retry_times <= RETRY_TIMES

\* A request that had retry_times retries is retried again.
may_retry(retry_times) == retry_times < RETRY_TIMES

\* The download of req failed with a retryable status: req goes back to the
\* scheduler with one retry more.
Retry(req) ==
    /\ BagIn(req, inflight)
    /\ req.url \in TransientUrls
    /\ may_retry(req.retry_times)
    /\ inflight' = inflight (-) SetToBag({req})
    /\ pending' = pending (+) SetToBag({[req EXCEPT !.retry_times = @ + 1]})
    /\ UNCHANGED <<depth_limit, visited_urls, scraped_count, active, items,
                   enqueued, depth_dropped, fetched, coflight>>
    /\ UNCHANGED <<pipeline_vars, norm_vars, rate_vars, run_vars, fn_vars>>

\* The download of req failed again with its retries used up: req is dropped.
RetryExhausted(req) ==
    /\ req.url \in TransientUrls
    /\ ~may_retry(req.retry_times)
    /\ DownloadFail(req)
    /\ gave_up' = gave_up \cup {req.url}
    /\ UNCHANGED <<norm_vars, rate_vars, fn_vars, handed>>

-----------------------------------------------------------------------------
\* A whole run: the engine opens the item pipeline, runs the spider, passes
\* each item parse yields to process_item and closes the pipeline when the
\* spider is idle.

InitEngine ==
    /\ handed = EmptyBag
    /\ gave_up = {}

\* The spider's requests are served once open_spider has returned.
engine_running == pstate = "open"

\* Nothing waits in the scheduler, is being downloaded or is being parsed.
spider_idle ==
    /\ pending = EmptyBag
    /\ inflight = EmptyBag
    /\ active = {}

RunOpen(fault) == OpenSpider(fault) /\ UNCHANGED ext_vars

RunDownload(req) == engine_running /\ Download(req) /\ UNCHANGED ext_vars

RunDownloadFail(req) == engine_running /\ DownloadFail(req) /\ UNCHANGED ext_vars

RunParse(req, page) == engine_running /\ Parse(req, page) /\ UNCHANGED ext_vars

RunFollowLink(cb, link) == engine_running /\ FollowLink(cb, link) /\ UNCHANGED ext_vars

\* An item parse yielded goes through process_item.
RunProcessItem(item, outcome) ==
    /\ BagIn(item, items (-) handed)
    /\ ProcessItem(item, outcome)
    /\ handed' = handed (+) SetToBag({item})
    /\ UNCHANGED <<norm_vars, rate_vars, fn_vars, gave_up>>

\* The spider is idle and every item went through the pipeline: close_spider.
RunClose(size_known) ==
    /\ spider_idle
    /\ items = handed
    /\ CloseSpider(size_known)
    /\ UNCHANGED ext_vars

-----------------------------------------------------------------------------
Init == InitCrawl /\ InitPipeline /\ NormIdle /\ InitRate /\ InitEngine /\ FnIdle

Next ==
    \/ \E req \in BagToSet(pending) : Download(req) /\ UNCHANGED ext_vars
    \/ \E req \in BagToSet(inflight) : DownloadFail(req) /\ UNCHANGED ext_vars
    \/ \E req \in BagToSet(inflight) : \E page \in SitePages(req.url) :
          Parse(req, page) /\ UNCHANGED ext_vars
    \/ \E cb \in active : \E link \in cb.links : FollowLink(cb, link) /\ UNCHANGED ext_vars

\* The crawl.
Spec == Init /\ [][Next]_vars

NextPipeline ==
    \/ \E fault \in OpenFaults : OpenSpider(fault) /\ UNCHANGED ext_vars
    \/ \E item \in PipelineItems, outcome \in Outcomes :
          ProcessItem(item, outcome) /\ UNCHANGED ext_vars
    \/ \E size_known \in BOOLEAN : CloseSpider(size_known) /\ UNCHANGED ext_vars
    \/ NewRun /\ UNCHANGED ext_vars

\* The ingestion pipeline over runs of the crawler.
SpecPipeline == Init /\ [][NextPipeline]_vars

NextNormalize == Normalize

\* Link normalization applied to an href and again to its result.
InitNormalizeLink ==
    InitCrawl /\ InitPipeline /\ InitNormalize /\ InitRate /\ InitEngine /\ FnIdle

SpecNormalize == InitNormalizeLink /\ [][NextNormalize]_vars

\* A run with DEPTH_LIMIT = 1: the start page and the pages it links to.
InitRun == Init /\ depth_limit = 1

NextRun ==
    \/ \E fault \in OpenFaults : RunOpen(fault)
    \/ \E req \in BagToSet(pending) : RunDownload(req)
    \/ \E req \in BagToSet(inflight) : RunDownloadFail(req)
    \/ \E req \in BagToSet(inflight) : \E page \in SitePages(req.url) : RunParse(req, page)
    \/ \E cb \in active : \E link \in cb.links : RunFollowLink(cb, link)
    \/ \E item \in BagToSet(items) : \E outcome \in Outcomes : RunProcessItem(item, outcome)
    \/ \E size_known \in BOOLEAN : RunClose(size_known)

\* One run of the crawler, from open_spider to close_spider.
SpecRun == InitRun /\ [][NextRun]_vars

NextDiscover == Discover

InitDiscoverLink ==
    InitCrawl /\ InitPipeline /\ NormIdle /\ InitRate /\ InitEngine /\ InitDiscover

\* Link discovery and the follow decision on one href.
SpecDiscover == InitDiscoverLink /\ [][NextDiscover]_vars

NextExtract == Extract

InitExtractPage ==
    InitCrawl /\ InitPipeline /\ NormIdle /\ InitRate /\ InitEngine /\ InitExtract

\* extract_content on one page.
SpecExtract == InitExtractPage /\ [][NextExtract]_vars

NextPrepare == Prepare

InitPrepareItem ==
    InitCrawl /\ InitPipeline /\ NormIdle /\ InitRate /\ InitEngine /\ InitPrepare

\* prepare_text_for_embedding on one item.
SpecPrepare == InitPrepareItem /\ [][NextPrepare]_vars

NextRetry ==
    \/ \E req \in BagToSet(pending) : Download(req) /\ UNCHANGED ext_vars
    \/ \E req \in BagToSet(inflight) : DownloadFail(req) /\ UNCHANGED ext_vars
    \/ \E req \in BagToSet(inflight) : \E page \in SitePages(req.url) :
          Parse(req, page) /\ UNCHANGED ext_vars
    \/ \E cb \in active : \E link \in cb.links : FollowLink(cb, link) /\ UNCHANGED ext_vars
    \/ \E req \in BagToSet(inflight) : Retry(req)
    \/ \E req \in BagToSet(inflight) : RetryExhausted(req)

\* The crawl with retries of failed downloads.
SpecRetry == Init /\ [][NextRetry]_vars

NextRate ==
    \/ \E w \in Workers : RateGet(w)
    \/ \E w \in Workers : RateDecide(w)
    \/ \E w \in Workers : RateError(w)

\* ActionCheckRateLimit for one sender in one session window.
SpecRate == Init /\ [][NextRate]_vars

\* The worker that runs the actions of the sender one after another.
SenderWorkers == {1}

\* No action of the sender is running.
sender_idle == \A w \in SenderWorkers : rl_pc[w] = "idle"

NextSession ==
    \/ \E w \in SenderWorkers : RateGet(w)
    \/ \E w \in SenderWorkers : RateDecide(w)
    \/ \E w \in SenderWorkers : RateError(w)
    \/ \E failed \in BOOLEAN : sender_idle /\ CheckTerms(failed)
    \/ \E failed \in BOOLEAN : sender_idle /\ AcceptTerms(failed)
    \/ sender_idle /\ ResetSession
    \/ Tick

\* The crawler's side does not matter here: the shipped depth limit, no
\* collection yet.
InitSession == Init /\ depth_limit = DEPTH_LIMIT /\ collection = {}

\* The actions of one sender run one after another while time passes.
SpecSession == InitSession /\ [][NextSession]_vars

-----------------------------------------------------------------------------
\* Properties of the crawl

\* Every request the crawl has had: waiting, being downloaded or answered.
Requests == BagToSet(pending) \cup BagToSet(inflight) \cup BagToSet(fetched)

\* No callback of url is still going through its links.
ParseDone(url) == url \in visited_urls /\ \A cb \in active : cb.url # url

normalize(url) == clean_link(url, url)

\* C4: two items whose URLs have the same normalized form have the same id.
C4_IdOfNormalizedUrl ==
    \A i1, i2 \in BagToSet(items) :
        normalize(i1.url) = normalize(i2.url) => i1.id = i2.id

\* The scope test of the design: host equality after a leading "www." is
\* taken off both hosts.
StripLeadingWww(host) ==
    IF StartsWith(host, <<"w","w","w",".">>) THEN Drop(host, 4) ELSE host

InScope(url) ==
    StripLeadingWww(netloc(url)) = StripLeadingWww(netloc(start_urls[1]))

IsExcluded(url) ==
    \E i \in 1..Len(exclude_patterns) : re_search(exclude_patterns[i], url)

\* is_internal_link against the start URL, and the scope test of the design,
\* computed once for each URL.
InternalTable == [u \in Urls |-> is_internal_link(u, start_urls[1])]

InScopeTable == [u \in Urls |-> InScope(u)]

\* C25: the scope test the spider applies to the links of a scraped page is
\* host equality after only a leading "www." is removed from both hosts.
C25_ScopeStripsLeadingWwwOnly ==
    \A u \in visited_urls : \A p \in SitePages(u) : \A l \in LinksTable[u][p] :
        InternalTable[l] = InScopeTable[l]

\* C24: an href that matches an exclude pattern is not followed once link
\* discovery has normalized it.
C24_DeniedAfterNormalization ==
    \A r \in fn_result :
        ("href" \in DOMAIN fn_arg /\ IsExcluded(fn_arg.href)) => ~r.follow

\* Text nodes with something other than whitespace among them.
HasText(nodes) == \E i \in 1..Len(nodes) : Strip(nodes[i]) # <<>>

\* The text nodes of the first content selector, in order, that has text,
\* and those of the body when none has.
RECURSIVE FirstWithText(_, _)
FirstWithText(page, i) ==
    IF i > Len(content_selectors) THEN page.texts
    ELSE IF HasText(page.containers[content_selectors[i]])
         THEN page.containers[content_selectors[i]]
         ELSE FirstWithText(page, i + 1)

\* C23: the main text of a page is that of the first content selector, in
\* order, that yields non-empty text, and the body text when none does: a
\* container holding only whitespace text nodes is passed over.
C23_FirstSelectorWithText ==
    \A r \in fn_result :
        LET text == page_text(FirstWithText(fn_arg.page, 1))
        IN  IF Len(text) >= MIN_TEXT_LENGTH
            THEN \E it \in r : it.text = text
            ELSE r = {}

\* The non-blank heading texts of a page in document order, cleaned.
HeadingsInDocumentOrder(page) ==
    LET kept == SelectSeq(page.headings, LAMBDA h : Strip(h.text) # <<>>)
    IN  [i \in 1..Len(kept) |-> clean_text(kept[i].text)]

\* C27: the headings of an item are the cleaned texts of the page's h1 to h6
\* headings in the order they stand in the page, whatever their levels.
C27_HeadingsInDocumentOrder ==
    \A r \in fn_result : \A it \in r :
        it.headings = HeadingsInDocumentOrder(fn_arg.page)

\* C5: no request of the crawl is for a URL out of scope or matching a deny
\* pattern.
C5_OnlyInScopeRequests ==
    \A r \in Requests : InScope(r.url) /\ ~IsExcluded(r.url)

\* C6 as stated: no page is fetched at a depth above the DEPTH_LIMIT setting.
C6_DepthWithinLimit ==
    \A r \in BagToSet(fetched) : r.depth <= depth_limit

\* C6 amended: start URLs are requested at depth 0 and, when DEPTH_LIMIT is
\* not 0, no request is deeper than DEPTH_LIMIT.
C6_DepthWithinPositiveLimit ==
    /\ \A r \in Requests :
          (\E i \in 1..Len(start_urls) : r.url = start_urls[i]) => r.depth = 0
    /\ depth_limit > 0 => \A r \in Requests : r.depth <= depth_limit

\* C6 witness: under the shipped limit a page at the limit was fetched and a
\* link found on it was dropped.
C6_Witness ==
    /\ depth_limit = DEPTH_LIMIT
    /\ \E r \in BagToSet(fetched) : r.depth = DEPTH_LIMIT
    /\ \E r \in depth_dropped : r.depth = DEPTH_LIMIT + 1

\* C7 as stated: with DEPTH_LIMIT = 0 only the start URLs are fetched and no
\* link is enqueued.
C7_ZeroLimitOnlySeeds ==
    depth_limit = 0 =>
        /\ enqueued = EmptyBag
        /\ \A r \in BagToSet(fetched) : \E i \in 1..Len(start_urls) : r.url = start_urls[i]

\* C7 amended: with DEPTH_LIMIT = 0 the depth filter drops nothing.
C7_ZeroLimitIsNoLimit ==
    depth_limit = 0 => depth_dropped = {}

\* C7 witness: with DEPTH_LIMIT = 0 a page deeper than the shipped limit was
\* fetched.
C7_Witness ==
    /\ depth_limit = 0
    /\ \E r \in BagToSet(fetched) : r.depth > DEPTH_LIMIT

\* C11: a parsed page whose cleaned main text has fewer than 100 characters
\* yields no item: every item parse has yielded carries a text of at least
\* 100 characters, and no item has the URL of such a page.
C11_ShortPageYieldsNothing ==
    /\ \A it \in BagToSet(items) : Len(it.text) >= MIN_TEXT_LENGTH
    /\ \A u \in visited_urls :
           (\A p \in SitePages(u) : TextLenTable[u][p] < MIN_TEXT_LENGTH)
           => \A it \in BagToSet(items) : it.url # u

\* C11 witness: /d, whose cleaned text has 99 characters, was parsed, and
\* the pages before it yielded their items.
C11_Witness ==
    /\ ParseDone(hD)
    /\ \A p \in SitePages(hD) : TextLenTable[hD][p] = MIN_TEXT_LENGTH - 1
    /\ \E it \in BagToSet(items) : it.url = hWwwIn

Considered(link) ==
    \/ link \in visited_urls
    \/ BagIn(link, enqueued)
    \/ \E r \in depth_dropped : r.url = link

\* The cleaned links of the hrefs of a page that come after the first
\* INTERNAL_LINKS_CAP hrefs.
LinksBeyondCap ==
    [u \in Urls |-> [p \in SitePages(u) |->
        { clean_link(u, p.hrefs[i]) :
            i \in { k \in (INTERNAL_LINKS_CAP + 1)..Len(p.hrefs) :
                       p.hrefs[k] # <<>> /\ p.hrefs[k][1] # "#" } }]]

\* C22: the cap of ten is on the stored internal_links field only. A scraped
\* page's item keeps at most ten links, and every in-scope, non-excluded
\* link of the page, those after its tenth href included, is considered for
\* enqueue once the page's link loop is over.
C22_CapOnlyOnStoredLinks ==
    /\ \A it \in BagToSet(items) : Len(it.internal_links) <= INTERNAL_LINKS_CAP
    /\ \A u \in visited_urls : ParseDone(u) =>
          \A p \in SitePages(u) : \A l \in LinksBeyondCap[u][p] :
              PassesTable[l] => Considered(l)

\* C22 witness: the home page has twelve hrefs, its item keeps ten links, and
\* /b, its eleventh href, was enqueued.
C22_Witness ==
    /\ ParseDone(start_urls[1])
    /\ Len(HomePage.hrefs) > INTERNAL_LINKS_CAP
    /\ \E it \in BagToSet(items) :
          it.url = start_urls[1] /\ Len(it.internal_links) = INTERNAL_LINKS_CAP
    /\ hB \in LinksBeyondCap[start_urls[1]][HomePage]
    /\ BagIn(hB, enqueued)

\* C30: a scraped page whose text is below the floor yields no item, and its
\* in-scope, non-excluded links are considered for enqueue all the same.
C30_RejectedPageLinksFollowed ==
    \A u \in visited_urls :
        (\A p \in SitePages(u) : TextLenTable[u][p] < MIN_TEXT_LENGTH) =>
            /\ \A it \in BagToSet(items) : it.url # u
            /\ ParseDone(u) =>
                  \A p \in SitePages(u) : \A l \in LinksTable[u][p] :
                      PassesTable[l] => Considered(l)

\* C30 witness: /d was scraped without an item and its link /e was enqueued.
C30_Witness ==
    /\ ParseDone(hD)
    /\ \A it \in BagToSet(items) : it.url # hD
    /\ hE \in UNION { LinksTable[hD][p] : p \in SitePages(hD) }
    /\ BagIn(hE, enqueued)

\* C28: scraped_count is the size of visited_urls, and parse on a response
\* whose URL is already in visited_urls yields no item and no follow request
\* and leaves the spider as it was.
C28_VisitedParsedOnce ==
    /\ [](scraped_count = Cardinality(visited_urls))
    /\ [][\A r \in BagToSet(fetched') :
            (CopiesIn(r, fetched') > CopiesIn(r, fetched) /\ r.url \in visited_urls)
            => UNCHANGED <<visited_urls, scraped_count, items, active, pending,
                           enqueued, depth_dropped>>
         ]_vars

\* C28 witness: two responses for /c reached parse, and /c was scraped once.
C28_Witness ==
    /\ \E r \in BagToSet(fetched) : r.url = hC /\ CopiesIn(r, fetched) = 2
    /\ \A it \in BagToSet(items) : it.url = hC => CopiesIn(it, items) = 1
    /\ \E it \in BagToSet(items) : it.url = hC
    /\ spider_idle

\* C19: normalizing a normalized URL gives the same URL.
C19_NormalizeIdempotent ==
    Len(norm_runs) >= 2 => norm_runs[2] = norm_runs[1]

\* C20: in one session window at most MAX_QUERIES runs of
\* ActionCheckRateLimit for the sender return rate_limited = False (stated
\* for the windows in which no Redis call failed).
C20_AtMostMaxQueries ==
    rl_errors = 0 => rl_allowed <= MAX_QUERIES

\* C31: whenever the session counter key of the sender is set it has an
\* expiry.
C31_SessionKeyExpires ==
    session # {} => session_expire # {}

\* The step is the return of the action of this name.
Returns(action) == returned' # returned /\ returned'.action = action

\* The count a run of ActionCheckRateLimit that is about to decide has read.
CountRead == UNION { rl_query_count[w] : w \in { x \in SenderWorkers : rl_pc[x] = "got" } }

\* C32: run one after another, the runs of ActionCheckRateLimit never leave
\* a stored count above MAX_QUERIES; a run whose Redis call raised returns
\* rate_limited = False, and a run that read a count of MAX_QUERIES or more
\* returns rate_limited = True and leaves the count and its expiry alone.
C32_FailOpenAndRejectedUncounted ==
    /\ [](\A c \in session : c <= MAX_QUERIES)
    /\ [][Returns("action_check_rate_limit") =>
            /\ returned'.raised => returned'.events["rate_limited"] = {{FALSE}}
            /\ (~returned'.raised /\ \E c \in CountRead : c >= MAX_QUERIES) =>
                  /\ returned'.events["rate_limited"] = {{TRUE}}
                  /\ UNCHANGED <<session, session_expire>>
         ]_vars

\* C32 witness: after a run that failed open, the count stands at the limit
\* and the latest run was refused.
C32_Witness ==
    /\ session = {MAX_QUERIES}
    /\ rl_errors >= 1
    /\ rl_limited >= 1
    /\ returned.action = "action_check_rate_limit"
    /\ returned.events["rate_limited"] = {{TRUE}}

\* C33: ActionCheckTerms reports True only when ActionAcceptTerms stored the
\* acceptance less than SESSION_TIMEOUT minutes ago, and False when the key
\* is not there or the get raised; an ActionAcceptTerms whose setex raised
\* returns no event and stores nothing.
C33_TermsOnlyWhenAcceptedInWindow ==
    /\ [][Returns("action_check_terms") =>
            /\ returned'.events["terms_accepted"] = {{TRUE}} =>
                  \E a \in last_accept : now - a < SESSION_TIMEOUT
            /\ (terms = {} \/ returned'.raised) =>
                  returned'.events["terms_accepted"] = {{FALSE}}
         ]_vars
    /\ [][(Returns("action_accept_terms") /\ returned'.raised) =>
            /\ returned'.events = NoEvents
            /\ UNCHANGED <<terms, terms_expire, slots>>
         ]_vars

\* C33 witness: accepted at minute 30, ActionCheckTerms reported True at
\* minute 60, and by minute 90 the key was gone and it reported False.
C33_Witness ==
    /\ last_accept = {TickMinutes}
    /\ now = TickMinutes + SESSION_TIMEOUT
    /\ terms = {}
    /\ returned.action = "action_check_terms"
    /\ returned.at = now
    /\ ~returned.raised
    /\ returned.events["terms_accepted"] = {{FALSE}}

\* C34: ActionResetSession sets the four slots and leaves the session
\* counter and the stored acceptance, with their expiries, as they were; the
\* checks that follow answer from what is stored, whatever the slots say.
C34_ResetLeavesStore ==
    /\ [][Returns("action_reset_session") =>
            /\ UNCHANGED <<session, session_expire, terms, terms_expire>>
            /\ slots' = [k \in SlotNames |->
                            CASE k = "terms_accepted"        -> {FALSE}
                              [] k = "session_queries_count" -> {0}
                              [] k = "rate_limited"          -> {FALSE}
                              [] k = "search_results"        -> {}]
         ]_vars
    /\ [][(Returns("action_check_rate_limit") /\ ~returned'.raised) =>
            \A c \in CountRead :
                returned'.events["rate_limited"] = {{c >= MAX_QUERIES}}
         ]_vars
    /\ [][(Returns("action_check_terms") /\ ~returned'.raised) =>
            returned'.events["terms_accepted"] = {{terms = {"true"}}}
         ]_vars

\* C34 witness: the reset has just returned while the counter stands at the
\* limit and the acceptance is stored.
C34_Witness ==
    /\ returned.action = "action_reset_session"
    /\ session = {MAX_QUERIES}
    /\ terms = {"true"}
    /\ slots["session_queries_count"] = {0}
    /\ slots["terms_accepted"] = {FALSE}

-----------------------------------------------------------------------------
\* Properties of the ingestion pipeline

Count(r) == Cardinality({ i \in 1..Len(results) : results[i] = r })

\* The process_item calls of the run that returned at the 50-character floor.
skipped == Count("skipped")

\* The process_item calls of the run whose embedding or upsert raised.
failed_in_pipeline == Count("embed_failed") + Count("upsert_failed")

\* C3: for every Document id the collection holds no point before the first
\* successful upsert and afterwards exactly the point built from the item of
\* the latest successful upsert (id, vector and whole payload).
C3_LatestPointPerDocument ==
    \A d \in DocIds :
        LET pts == { p \in store : p.payload.url = d.md5 }
        IN  IF last_indexed[d] = {}
            THEN pts = {}
            ELSE pts = { [id      |-> it.id,
                          vector  |-> create_embedding(PreparedTable[it]),
                          payload |-> payload_of(it)] : it \in last_indexed[d] }

\* C3 witness: two upserts of /a succeeded in one run, the second with a
\* changed body, and the collection holds the one point of the second.
C3_Witness ==
    /\ results = <<"indexed", "indexed">>
    /\ last_item = {ItemA2}
    /\ Cardinality(store) = 1
    /\ \E p \in store : p.payload.full_text = ItemA2.text

C14_SummaryHasAllCounts ==
    pstate = "closed" =>
        /\ summary # {}
        /\ \A sm \in summary :
              {"processed", "indexed", "skipped", "failed"} \subseteq DOMAIN sm

\* C29: items_indexed never exceeds items_processed and is the number of
\* process_item calls of the run whose upsert returned; every process_item
\* call adds exactly one to items_processed, and one that was skipped or
\* whose embedding or upsert raised leaves items_indexed as it was.
C29_IndexedCountsUpserts ==
    /\ [](/\ items_indexed <= items_processed
          /\ items_indexed = Count("indexed")
          /\ items_processed = Len(results))
    /\ [][Len(results') = Len(results) + 1 =>
            /\ items_processed' = items_processed + 1
            /\ (results'[Len(results')] # "indexed" => items_indexed' = items_indexed)
            /\ (results'[Len(results')] = "indexed" => items_indexed' = items_indexed + 1)
         ]_vars

\* C29 witness: an upsert raised, an item was skipped, a third was indexed.
C29_Witness ==
    /\ results = <<"upsert_failed", "skipped", "indexed">>
    /\ items_processed = 3
    /\ items_indexed = 1
    /\ upsert_calls = 2

\* The bag of the elements of a sequence.
RECURSIVE BagOf(_)
BagOf(seq) ==
    IF seq = <<>> THEN EmptyBag ELSE SetToBag({Head(seq)}) (+) BagOf(Tail(seq))

\* C21: the snapshot file of a run is written once, by close_spider, and
\* holds the items handed to the pipeline during the run in the order they
\* were processed; before close_spider nothing is written.
C21_SnapshotAtClose ==
    /\ [](/\ pstate \in {"init", "open", "crashed"} => json_file = <<>>
          /\ pstate = "closed" =>
                /\ Len(json_file) = 1
                /\ BagOf(json_file[1]) = handed
                /\ Len(json_file[1]) = items_processed)
    /\ [][/\ \A it \in BagToSet(handed') :
               CopiesIn(it, handed') > CopiesIn(it, handed) =>
                   json_items' = Append(json_items, it)
          /\ (pstate = "open" /\ pstate' = "closed") => json_file' = <<json_items>>
         ]_vars

\* C21 witness: the run closed after an indexed item, one whose upsert raised
\* and a third one went through the pipeline, and the file holds the three.
C21_Witness ==
    /\ pstate = "closed"
    /\ Len(json_file) = 1
    /\ Len(json_file[1]) = 3
    /\ results[1] = "indexed"
    /\ results[2] = "upsert_failed"
    /\ json_file[1][1].url # json_file[1][2].url

\* The words of the strings of a sequence, in order.
RECURSIVE WordsOfAll(_)
WordsOfAll(strings) ==
    IF strings = <<>> THEN <<>>
    ELSE SplitWords(Head(strings)) \o WordsOfAll(Tail(strings))

C9_ItemFailureNotFatal ==
    [][/\ (/\ Len(results') = Len(results) + 1
           /\ results'[Len(results')] \in {"embed_failed", "upsert_failed"})
          => /\ pstate' = "open"
             /\ store' = store
             /\ items_processed' = items_processed + 1
             /\ items_indexed' = items_indexed
       /\ (skipped' = 0) => (items_indexed' = items_processed' - failed_in_pipeline')
      ]_vars

\* C9 witness: an item failed, the two after it were indexed.
C9_Witness ==
    /\ Len(results) = 3
    /\ results[1] = "embed_failed"
    /\ results[2] = "indexed"
    /\ results[3] = "indexed"
    /\ items_processed = 3
    /\ items_indexed = 2

====
